---- MODULE Spec2Model ----
(***************************************************************************)
(* JumperJonesy (src/game.js): the run/menu state machine, the player      *)
(* physics, the obstacle generator and the obstacle scroller.              *)
(*                                                                         *)
(* Units.  The source computes in IEEE doubles; the model computes in      *)
(* exact fixed point.  Lengths and velocities of the simulation (player,   *)
(* obstacles, groundHeight) are in tenths of a pixel; the canvas size, the *)
(* button layout and the click coordinates are in whole pixels; time       *)
(* stamps are in milliseconds; score is in points.  Math.random() is k/20  *)
(* with k in 0..19.  The viewports, time steps and draws below are chosen  *)
(* so that every product of the source is an integer in these units.       *)
(***************************************************************************)
EXTENDS Integers, Sequences, FiniteSets, TLC

VARIABLES
    gameState,          \* game.js:8
    previousGameState,  \* game.js:9
    currentLevel,       \* game.js:10
    score,              \* game.js:11
    lastTime,           \* game.js:12
    levelObstacles,     \* game.js:13
    groundHeight,       \* game.js:16
    player,             \* game.js:23-39
    menuButtons,        \* game.js:41
    canvas,             \* game.js:2, width/height set in resizeCanvas
    firstFrameDone      \* whether the frame callback requested by init() has run yet

vars == <<gameState, previousGameState, currentLevel, score, lastTime,
          levelObstacles, groundHeight, player, menuButtons, canvas, firstFrameDone>>

Max(a, b) == IF a >= b THEN a ELSE b
Min(a, b) == IF a <= b THEN a ELSE b

(***************************************************************************)
(* Bounds of the model and the inputs the host can supply.                 *)
(***************************************************************************)
\* Last time stamp (in seconds) a frame may carry.
MaxTimeSec == 12
\* Target length, in pixels, of an infinite-mode sequence.  The source uses
\* 999999999 (game.js:213), about two million obstacles; the model bounds it.
MaxDistInfinite == 2000
\* Number of level buttons (game.js:93, 336, 416).
LevelCount == 50

\* canvas.offsetWidth / canvas.offsetHeight the host can report (pixels).
Viewports == { [width |-> 800, height |-> 400], [width |-> 1000, height |-> 600] }
\* Elapsed milliseconds between two frame callbacks.
FrameGapsMs == {3000}
\* Streams of Math.random() draws (k stands for k/20), read cyclically.
RandomStreams == { <<0, 0, 10>>, <<10, 19, 0, 10>> }
\* e.code values of a keydown event.
KeyCodes == {"Space", "ArrowUp", "KeyA"}
\* Buttons a click may aim at (it lands on the button's centre), or "none" for
\* a point outside every button.  The centres of "levels" and "infinite" also
\* lie in the game-over and level-complete buttons drawn at the same place.
ClickTargets == {"levels", "infinite", "back", "level_1", "level_2", "none"}

\* A long session on one viewport: frames half a minute apart, last levels.
LongViewports == { [width |-> 800, height |-> 400] }
LongFrameGapsMs == {30000}
LongMaxTimeSec == 90
LongClickTargets == {"levels", "infinite", "back", "level_49", "level_50", "none"}

\* One run at frame rate on one viewport: frames 0 or 20 ms apart, jumps, and
\* resize events that report the same size (they still reset the position).
PhysViewports == { [width |-> 800, height |-> 400] }
PhysFrameGapsMs == {0, 20}
PhysMaxTimeMs == 40
PhysClickTargets == {"levels", "infinite", "level_1", "none"}

\* Sessions that start runs of every level on three viewports under varied
\* draws: smallest and largest gap, narrow and wide, low and tall obstacles.
GenViewports ==
    { [width |-> 800, height |-> 400], [width |-> 1000, height |-> 600],
      [width |-> 1600, height |-> 800] }
GenFrameGapsMs == {30000}
GenMaxTimeSec == 30
GenRandomStreams ==
    { <<0>>, <<19>>, <<0, 19, 4>>, <<19, 0, 5>>, <<0, 0, 10>>, <<10, 19, 0, 10>> }
GenClickTargets ==
    {"levels", "infinite", "back"} \cup { "level_" \o ToString(i) : i \in 1..LevelCount }

\* One infinite run at frame rate while the window changes between the two
\* sizes: frames 20 ms apart, jumps, resizes.
ResizeViewports == { [width |-> 800, height |-> 400], [width |-> 1200, height |-> 800] }
ResizeFrameGapsMs == {20}
ResizeMaxTimeMs == 180
ResizeClickTargets == {"infinite"}

\* Level runs that are played to their end: frames 1 s or 3 s apart.
\* LiveMaxTimeSec bounds the time stamps of the clicks and of the frames
\* outside a run, LiveRunBudgetSec the time a frame of a run may lie past it.
LiveViewports == { [width |-> 800, height |-> 400] }
LiveFrameGapsMs == {1000, 3000}
LiveMaxTimeSec == 6
LiveRunBudgetSec == 30
LiveClickTargets == {"levels", "back", "level_1", "level_2", "none"}

\* Sessions around the last level: a frame 3 s after the previous one can
\* crash a run of level 50, one 30 s after it completes the run.
LastViewports == { [width |-> 800, height |-> 400] }
LastFrameGapsMs == {3000, 30000}
LastMaxTimeSec == 36
LastClickTargets == {"levels", "infinite", "back", "level_50", "none"}

\* One run at frame rate while the canvas collapses to no height and comes
\* back: frames 20 ms apart, jumps, resizes.
ShrinkViewports == { [width |-> 800, height |-> 400], [width |-> 800, height |-> 0] }
ShrinkFrameGapsMs == {20}
ShrinkMaxTimeMs == 60
ShrinkClickTargets == {"levels", "infinite", "level_1"}

(***************************************************************************)
(* The program state as one record, so that a handler is a function from   *)
(* state to state and calls compose in the order the source makes them.    *)
(***************************************************************************)
Cur == [gameState |-> gameState, previousGameState |-> previousGameState,
        currentLevel |-> currentLevel, score |-> score, lastTime |-> lastTime,
        levelObstacles |-> levelObstacles, groundHeight |-> groundHeight,
        player |-> player, menuButtons |-> menuButtons, canvas |-> canvas]

Becomes(G) ==
    /\ gameState' = G.gameState
    /\ previousGameState' = G.previousGameState
    /\ currentLevel' = G.currentLevel
    /\ score' = G.score
    /\ lastTime' = G.lastTime
    /\ levelObstacles' = G.levelObstacles
    /\ groundHeight' = G.groundHeight
    /\ player' = G.player
    /\ menuButtons' = G.menuButtons
    /\ canvas' = G.canvas

Is(G) ==
    /\ gameState = G.gameState
    /\ previousGameState = G.previousGameState
    /\ currentLevel = G.currentLevel
    /\ score = G.score
    /\ lastTime = G.lastTime
    /\ levelObstacles = G.levelObstacles
    /\ groundHeight = G.groundHeight
    /\ player = G.player
    /\ menuButtons = G.menuButtons
    /\ canvas = G.canvas

\* Hitbox fractions of the player object, in percent (game.js:33-36).
hitboxOffsetX == 12
hitboxOffsetY == 18
hitboxWidthScale == 76
hitboxHeightScale == 68

\* The globals as the script's top level leaves them (game.js:8-41).
Globals ==
    [gameState |-> "MENU", previousGameState |-> "INFINITE", currentLevel |-> 1,
     score |-> 0, lastTime |-> 0, levelObstacles |-> <<>>, groundHeight |-> 100,
     player |-> [x |-> 0, y |-> 0, width |-> 0, height |-> 0, velocityY |-> 0,
                 gravity |-> 10, jumpStrength |-> -200, isGrounded |-> TRUE,
                 terminalVelocity |-> 20000],
     menuButtons |-> <<>>, canvas |-> [width |-> 0, height |-> 0]]

(***************************************************************************)
(* UI button positioning (pixels).                                         *)
(***************************************************************************)
\* The key 'level_' + i of menuButtons.
LevelKey == [i \in 1..LevelCount |-> "level_" \o ToString(i)]

updateMenuButtonPositions(G) ==
    LET W == G.canvas.width
        H == G.canvas.height
        bw == 200  bh == 50  by == (H \div 2) + 20  margin == 20
        startX == W \div 10  startY == H \div 4
        btnW == 50  btnH == 30  pad == 15  cols == 10
        Btn(x, y, w, h) == [x |-> x, y |-> y, width |-> w, height |-> h]
        fixed ==
            [n \in {"levels", "infinite", "back", "gameOverMenu", "gameOverRetry",
                    "levelCompleteMenu", "levelCompleteLevels"} |->
                CASE n = "levels" -> Btn((W \div 2) - 150, (H \div 2) + 30, 140, 40)
                  [] n = "infinite" -> Btn((W \div 2) + 10, (H \div 2) + 30, 140, 40)
                  [] n = "back" -> Btn(20, 20, 100, 30)
                  [] n = "gameOverMenu" -> Btn((W \div 2) - bw - (margin \div 2), by, bw, bh)
                  [] n = "gameOverRetry" -> Btn((W \div 2) + (margin \div 2), by, bw, bh)
                  [] n = "levelCompleteMenu" -> Btn((W \div 2) - bw - (margin \div 2), by, bw, bh)
                  [] n = "levelCompleteLevels" -> Btn((W \div 2) + (margin \div 2), by, bw, bh)]
        levels ==
            [n \in { LevelKey[i] : i \in 1..LevelCount } |->
                LET i == CHOOSE k \in 1..LevelCount : LevelKey[k] = n
                    col == (i - 1) % cols
                    row == (i - 1) \div cols
                IN  Btn(startX + col * (btnW + pad), startY + row * (btnH + pad), btnW, btnH)]
    IN  [G EXCEPT !.menuButtons = fixed @@ levels]

(***************************************************************************)
(* Resize canvas + responsive scaling.  vp is canvas.offsetWidth/Height.   *)
(***************************************************************************)
\* Faulty variant of resizeCanvas: the position is reset from the height the
\* player had before the resize.
resizeCanvas_StaleHeight(G, vp) ==
    LET H == vp.height
        W == vp.width
        gh == Max(180, (H * 6) \div 10)
        ph == (H * 15) \div 10
        p1 == [G.player EXCEPT
                 !.height = ph,
                 !.width = ph,
                 !.gravity = (H * 35) \div 1000,
                 !.jumpStrength = -((H * 6) \div 10),
                 !.terminalVelocity = H * 25,
                 !.x = (W * 5) \div 10,
                 !.y = H * 10 - gh - G.player.height]
    IN  updateMenuButtonPositions(
            [G EXCEPT !.canvas = [width |-> W, height |-> H],
                      !.groundHeight = gh,
                      !.player = p1])

resizeCanvas(G, vp) ==
    LET H == vp.height
        W == vp.width
        gh == Max(180, (H * 6) \div 10)            \* max(18, H*0.06)
        ph == (H * 15) \div 10                     \* H*0.15
        p1 == [G.player EXCEPT
                 !.height = ph,
                 !.width = ph,
                 !.gravity = (H * 35) \div 1000,   \* H*0.0035
                 !.jumpStrength = -((H * 6) \div 10),
                 !.terminalVelocity = H * 25,      \* H*2.5
                 !.x = (W * 5) \div 10,            \* W*0.05
                 !.y = H * 10 - gh - ph]
    IN  updateMenuButtonPositions(
            [G EXCEPT !.canvas = [width |-> W, height |-> H],
                      !.groundHeight = gh,
                      !.player = p1])

\* init() (game.js:107-115): the listeners are registered, the canvas is sized
\* and the first frame is requested.
Init ==
    /\ \E vp \in Viewports : \E G \in {resizeCanvas(Globals, vp)} : Is(G)
    /\ firstFrameDone = FALSE

InitPhys ==
    /\ \E vp \in PhysViewports : \E G \in {resizeCanvas(Globals, vp)} : Is(G)
    /\ firstFrameDone = FALSE

InitLong ==
    /\ \E vp \in LongViewports : \E G \in {resizeCanvas(Globals, vp)} : Is(G)
    /\ firstFrameDone = FALSE

InitResize ==
    /\ \E vp \in ResizeViewports : \E G \in {resizeCanvas(Globals, vp)} : Is(G)
    /\ firstFrameDone = FALSE

InitLive ==
    /\ \E vp \in LiveViewports : \E G \in {resizeCanvas(Globals, vp)} : Is(G)
    /\ firstFrameDone = FALSE

InitLast ==
    /\ \E vp \in LastViewports : \E G \in {resizeCanvas(Globals, vp)} : Is(G)
    /\ firstFrameDone = FALSE

InitShrink ==
    /\ \E vp \in ShrinkViewports : \E G \in {resizeCanvas(Globals, vp)} : Is(G)
    /\ firstFrameDone = FALSE

InitGen ==
    /\ \E vp \in GenViewports : \E G \in {resizeCanvas(Globals, vp)} : Is(G)
    /\ firstFrameDone = FALSE

(***************************************************************************)
(* Player physics.                                                         *)
(***************************************************************************)
GroundLine(G) == G.canvas.height * 10 - G.groundHeight

resetPlayerAndObstacles(G) ==
    [G EXCEPT !.player = [@ EXCEPT !.x = (G.canvas.width * 5) \div 10,
                                   !.y = G.canvas.height * 10 - G.player.height - G.groundHeight,
                                   !.velocityY = 0,
                                   !.isGrounded = TRUE],
              !.levelObstacles = <<>>]

\* Faulty variant of updatePlayer: the ground collision is not applied.
updatePlayer_NoGroundClamp(G) ==
    LET p0 == G.player
        v1 == IF p0.isGrounded THEN p0.velocityY
              ELSE Min(p0.velocityY + p0.gravity, p0.terminalVelocity)
        y1 == IF p0.isGrounded THEN p0.y ELSE p0.y + v1
        y3 == IF y1 < 0 THEN 0 ELSE y1
        v3 == IF y1 < 0 /\ v1 < 0 THEN 0 ELSE v1
    IN  [G EXCEPT !.player = [@ EXCEPT !.y = y3, !.velocityY = v3]]

updatePlayer(G) ==
    LET p0 == G.player
        \* if (!player.isGrounded) { gravity; terminal velocity clamp; move }
        v1 == IF p0.isGrounded THEN p0.velocityY
              ELSE Min(p0.velocityY + p0.gravity, p0.terminalVelocity)
        y1 == IF p0.isGrounded THEN p0.y ELSE p0.y + v1
        \* ground collision
        hitGround == y1 + p0.height > GroundLine(G)
        y2 == IF hitGround THEN GroundLine(G) - p0.height ELSE y1
        v2 == IF hitGround THEN 0 ELSE v1
        g2 == IF hitGround THEN TRUE ELSE p0.isGrounded
        \* ceiling clamp
        y3 == IF y2 < 0 THEN 0 ELSE y2
        v3 == IF y2 < 0 /\ v2 < 0 THEN 0 ELSE v2
    IN  [G EXCEPT !.player = [@ EXCEPT !.y = y3, !.velocityY = v3, !.isGrounded = g2]]

\* Faulty variant of jump: the grounded flag is not tested.
jump_Always(G) ==
    [G EXCEPT !.player = [@ EXCEPT !.isGrounded = FALSE,
                                   !.velocityY = G.player.jumpStrength]]

jump(G) ==
    IF G.player.isGrounded
    THEN [G EXCEPT !.player = [@ EXCEPT !.isGrounded = FALSE,
                                        !.velocityY = G.player.jumpStrength]]
    ELSE G

(***************************************************************************)
(* Obstacles.                                                              *)
(***************************************************************************)
\* The j-th call of Math.random() under stream rs (a value k stands for k/20).
Draw(rs, j) == rs[((j - 1) % Len(rs)) + 1]

\* Faulty variant of Difficulty: the level term has the wrong sign.
Difficulty_Inverted(isInfinite, sc, level) ==
    IF isInfinite THEN 100 + (sc \div 500) * 20 ELSE 100 - (level - 1) * 15

\* difficulty, times 100 (game.js:212)
Difficulty(isInfinite, sc, level) ==
    IF isInfinite THEN 100 + (sc \div 500) * 20 ELSE 100 + (level - 1) * 15

\* maxDist, in tenths of a pixel (game.js:213)
MaxDist(isInfinite, level) ==
    IF isInfinite THEN MaxDistInfinite * 10 ELSE (800 + level * 100) * 10

\* Faulty variant of GenLoop: the obstacle is placed at the cursor, before
\* the gap is added.
RECURSIVE GenLoop_NoGap(_, _, _, _, _, _, _, _)
GenLoop_NoGap(G, d, maxDist, rs, x, total, obs, j) ==
    LET ph == G.player.height
        pw == G.player.width
        baseH == (ph * 105) \div 100
        tallH == ph * 2 + (d * 4) \div 10
        maxW == (pw * 24) \div 10
        minGap == Max((pw * 16) \div 10, 400)
        gap == Max(minGap, 4200 - d * 6 + Draw(rs, j + 1) * 50)
        w == Min(maxW, (baseH * 6) \div 10 + (d * 8) \div 10 + Draw(rs, j + 2) * 9)
        h == IF Draw(rs, j + 3) < 5 THEN tallH + (d * 6) \div 10 ELSE baseH
        o == [x |-> x, y |-> GroundLine(G) - h, width |-> w, height |-> h]
    IN  IF total < maxDist
        THEN GenLoop_NoGap(G, d, maxDist, rs, x + w, x + gap + w, Append(obs, o), j + 3)
        ELSE obs

\* Faulty variant of GenLoop: the floor of the gap is 20 px, not 40 px.
RECURSIVE GenLoop_LowFloor(_, _, _, _, _, _, _, _)
GenLoop_LowFloor(G, d, maxDist, rs, x, total, obs, j) ==
    LET ph == G.player.height
        pw == G.player.width
        baseH == (ph * 105) \div 100
        tallH == ph * 2 + (d * 4) \div 10
        maxW == (pw * 24) \div 10
        minGap == Max((pw * 16) \div 10, 200)
        gap == Max(minGap, 4200 - d * 6 + Draw(rs, j + 1) * 50)
        xo == x + gap
        w == Min(maxW, (baseH * 6) \div 10 + (d * 8) \div 10 + Draw(rs, j + 2) * 9)
        h == IF Draw(rs, j + 3) < 5 THEN tallH + (d * 6) \div 10 ELSE baseH
        o == [x |-> xo, y |-> GroundLine(G) - h, width |-> w, height |-> h]
    IN  IF total < maxDist
        THEN GenLoop_LowFloor(G, d, maxDist, rs, xo + w, xo + w, Append(obs, o), j + 3)
        ELSE obs

\* Faulty variant of GenLoop: the gap is not held to minGap.
RECURSIVE GenLoop_NoMinGap(_, _, _, _, _, _, _, _)
GenLoop_NoMinGap(G, d, maxDist, rs, x, total, obs, j) ==
    LET ph == G.player.height
        pw == G.player.width
        baseH == (ph * 105) \div 100
        tallH == ph * 2 + (d * 4) \div 10
        maxW == (pw * 24) \div 10
        gap == 4200 - d * 6 + Draw(rs, j + 1) * 50
        xo == x + gap
        w == Min(maxW, (baseH * 6) \div 10 + (d * 8) \div 10 + Draw(rs, j + 2) * 9)
        h == IF Draw(rs, j + 3) < 5 THEN tallH + (d * 6) \div 10 ELSE baseH
        o == [x |-> xo, y |-> GroundLine(G) - h, width |-> w, height |-> h]
    IN  IF total < maxDist
        THEN GenLoop_NoMinGap(G, d, maxDist, rs, xo + w, xo + w, Append(obs, o), j + 3)
        ELSE obs

\* The while loop of generateObstacles (game.js:222-238): x is the cursor,
\* total the loop variable, obs the obstacles pushed so far, j the number of
\* draws made so far.
RECURSIVE GenLoop(_, _, _, _, _, _, _, _)
GenLoop(G, d, maxDist, rs, x, total, obs, j) ==
    LET ph == G.player.height
        pw == G.player.width
        baseH == (ph * 105) \div 100                          \* height * 1.05
        tallH == ph * 2 + (d * 4) \div 10                     \* height * 2.0 + difficulty * 4
        maxW == (pw * 24) \div 10                             \* width * 2.4
        minGap == Max((pw * 16) \div 10, 400)                 \* max(width * 1.6, 40)
        gap == Max(minGap, 4200 - d * 6 + Draw(rs, j + 1) * 50)
        xo == x + gap
        w == Min(maxW, (baseH * 6) \div 10 + (d * 8) \div 10 + Draw(rs, j + 2) * 9)
        h == IF Draw(rs, j + 3) < 5 THEN tallH + (d * 6) \div 10 ELSE baseH
        o == [x |-> xo, y |-> GroundLine(G) - h, width |-> w, height |-> h]
    IN  IF total < maxDist
        THEN GenLoop(G, d, maxDist, rs, xo + w, xo + w, Append(obs, o), j + 3)
        ELSE obs

\* Faulty variant of generateObstacles: the loop variable starts at the
\* cursor instead of 0.
generateObstacles_TotalFromCursor(G, isInfinite, rs) ==
    [G EXCEPT !.levelObstacles =
        GenLoop(G, Difficulty(isInfinite, G.score, G.currentLevel),
                MaxDist(isInfinite, G.currentLevel), rs,
                G.canvas.width * 6, G.canvas.width * 6, <<>>, 0)]

generateObstacles(G, isInfinite, rs) ==
    [G EXCEPT !.levelObstacles =
        GenLoop(G, Difficulty(isInfinite, G.score, G.currentLevel),
                MaxDist(isInfinite, G.currentLevel), rs,
                G.canvas.width * 6, 0, <<>>, 0)]

(***************************************************************************)
(* Game over.                                                              *)
(***************************************************************************)
\* Faulty variant of resetGame: a crash also advances the level index.
resetGame_AdvancesLevel(G) ==
    [G EXCEPT !.previousGameState = G.gameState,
              !.gameState = "GAME_OVER",
              !.currentLevel = @ + 1,
              !.player = [@ EXCEPT !.velocityY = 0, !.isGrounded = TRUE]]

\* Faulty variant of resetGame: the mode of the crashed run is not recorded.
resetGame_KeepsPreviousMode(G) ==
    [G EXCEPT !.player = [@ EXCEPT !.velocityY = 0, !.isGrounded = TRUE],
              !.gameState = "GAME_OVER"]

resetGame(G) ==
    [G EXCEPT !.previousGameState = G.gameState,
              !.player = [@ EXCEPT !.velocityY = 0, !.isGrounded = TRUE],
              !.gameState = "GAME_OVER"]

\* The player's hitbox (game.js:247-250).
Hitbox(p) ==
    [x |-> p.x + (p.width * hitboxOffsetX) \div 100,
     y |-> p.y + (p.height * hitboxOffsetY) \div 100,
     width |-> (p.width * hitboxWidthScale) \div 100,
     height |-> (p.height * hitboxHeightScale) \div 100]

\* Faulty variant of Overlaps: rectangles that share an edge count as
\* overlapping.
Overlaps_Inclusive(hb, o) ==
    /\ hb.x <= o.x + o.width
    /\ hb.x + hb.width >= o.x
    /\ hb.y <= o.y + o.height
    /\ hb.y + hb.height >= o.y

\* The overlap test of game.js:258.
Overlaps(hb, o) ==
    /\ hb.x < o.x + o.width
    /\ hb.x + hb.width > o.x
    /\ hb.y < o.y + o.height
    /\ hb.y + hb.height > o.y

\* Scroll distance of one tick, in tenths of a pixel (game.js:242-245);
\* deltaMs is delta in milliseconds.
ScrollDx(G, deltaMs) ==
    LET baseSpeed == IF G.gameState = "LEVEL" THEN 250 ELSE 300
        speedUp == IF G.gameState = "INFINITE" THEN (G.score \div 100) * 5 ELSE 0
    IN  ((baseSpeed + speedUp) * deltaMs) \div 100

\* Faulty variants of completeLevel: the index skips a level; the sequence and
\* the player are left as they are; the machine goes straight to the menu.
completeLevel_SkipsLevel(G) ==
    [resetPlayerAndObstacles([G EXCEPT !.gameState = "LEVEL_COMPLETE"])
        EXCEPT !.currentLevel = @ + 2]

completeLevel_KeepsRun(G) ==
    [G EXCEPT !.gameState = "LEVEL_COMPLETE", !.currentLevel = @ + 1]

completeLevel_ToMenu(G) ==
    [resetPlayerAndObstacles([G EXCEPT !.gameState = "MENU"])
        EXCEPT !.currentLevel = @ + 1]

\* The level-complete branch (game.js:267-271).
completeLevel(G) ==
    [resetPlayerAndObstacles([G EXCEPT !.gameState = "LEVEL_COMPLETE"])
        EXCEPT !.currentLevel = @ + 1]

\* Faulty variant of ScanObstacles: the completion test does not ask for LEVEL.
RECURSIVE ScanObstacles_AnyMode(_, _, _, _, _)
ScanObstacles_AnyMode(G, dx, hb, i, levelDone) ==
    IF i > Len(G.levelObstacles)
    THEN IF levelDone THEN completeLevel(G) ELSE G
    ELSE LET o == [G.levelObstacles[i] EXCEPT !.x = @ - dx]
             G1 == [G EXCEPT !.levelObstacles[i] = o]
             done == levelDone \/ (o.x < -o.width /\ i = Len(G.levelObstacles))
         IN  IF Overlaps(hb, o)
             THEN resetGame(G1)
             ELSE CHOOSE r \in { ScanObstacles_AnyMode(g, dx, hb, i + 1, d) :
                                    g \in {G1}, d \in {done} } : TRUE

\* Faulty variant of ScanObstacles: the completion test compares the index
\* with the length, which no index reaches.
RECURSIVE ScanObstacles_OffByOne(_, _, _, _, _)
ScanObstacles_OffByOne(G, dx, hb, i, levelDone) ==
    IF i > Len(G.levelObstacles)
    THEN IF levelDone THEN completeLevel(G) ELSE G
    ELSE LET o == [G.levelObstacles[i] EXCEPT !.x = @ - dx]
             G1 == [G EXCEPT !.levelObstacles[i] = o]
             done == levelDone \/ (G.gameState = "LEVEL" /\ o.x < -o.width
                                   /\ i - 1 = Len(G.levelObstacles))
         IN  IF Overlaps(hb, o)
             THEN resetGame(G1)
             ELSE CHOOSE r \in { ScanObstacles_OffByOne(g, dx, hb, i + 1, d) :
                                    g \in {G1}, d \in {done} } : TRUE

\* The for loop of updateObstacles from index i on (game.js:254-265), then the
\* branch after it.  The state after one iteration is bound as a value (g, d)
\* before the next one starts, so that it is computed once per iteration.
RECURSIVE ScanObstacles(_, _, _, _, _)
ScanObstacles(G, dx, hb, i, levelDone) ==
    IF i > Len(G.levelObstacles)
    THEN IF levelDone THEN completeLevel(G) ELSE G
    ELSE LET o == [G.levelObstacles[i] EXCEPT !.x = @ - dx]
             G1 == [G EXCEPT !.levelObstacles[i] = o]
             done == levelDone \/ (G.gameState = "LEVEL" /\ o.x < -o.width
                                   /\ i = Len(G.levelObstacles))
         IN  IF Overlaps(hb, o)
             THEN resetGame(G1)
             ELSE CHOOSE r \in { ScanObstacles(g, dx, hb, i + 1, d) :
                                    g \in {G1}, d \in {done} } : TRUE

\* Faulty variant of updateObstacles: every obstacle is scrolled before the
\* first overlap test.
updateObstacles_ScrollsAllFirst(G, deltaMs) ==
    LET dx == ScrollDx(G, deltaMs)
        moved == [i \in 1..Len(G.levelObstacles) |->
                     [G.levelObstacles[i] EXCEPT !.x = @ - dx]]
    IN  ScanObstacles([G EXCEPT !.levelObstacles = moved], 0, Hitbox(G.player), 1, FALSE)

updateObstacles(G, deltaMs) ==
    CHOOSE r \in { ScanObstacles(g, dx, hb, 1, FALSE) :
                      g \in {G}, dx \in {ScrollDx(G, deltaMs)}, hb \in {Hitbox(G.player)} } : TRUE

(***************************************************************************)
(* Game update, score, game loop.                                          *)
(***************************************************************************)
\* Faulty variant of updateGame: gravity is scaled by the elapsed time (one
\* unit per 20 ms).
updateGame_ScaledGravity(G, deltaMs) ==
    LET scaled == [G EXCEPT !.player.gravity = (@ * deltaMs) \div 20]
        stepped == updatePlayer(scaled)
    IN  updateObstacles([stepped EXCEPT !.player.gravity = G.player.gravity], deltaMs)

updateGame(G, deltaMs) == updateObstacles(updatePlayer(G), deltaMs)

\* score += 250 * delta
\* Faulty variant of updateScore: a fixed amount per frame, whatever the
\* elapsed time.
updateScore_PerFrame(G, deltaMs) == [G EXCEPT !.score = @ + 250]

updateScore(G, deltaMs) == [G EXCEPT !.score = @ + (250 * deltaMs) \div 1000]

\* Faulty variant of gameLoop: the GAME_OVER case falls into the simulation.
gameLoop_SimulatesGameOver(G, timestamp) ==
    LET deltaMs == timestamp - G.lastTime
        G0 == [G EXCEPT !.lastTime = timestamp]
    IN  IF G0.gameState \in {"LEVEL", "INFINITE", "GAME_OVER"}
        THEN LET G1 == updateGame(G0, deltaMs)
             IN  IF G1.gameState = "LEVEL" THEN G1 ELSE updateScore(G1, deltaMs)
        ELSE G0

\* One frame callback with the given time stamp (ms).  The image is complete
\* once init() has run, so the early return of game.js:125-128 is not taken.
gameLoop(G, timestamp) ==
    LET deltaMs == timestamp - G.lastTime
        G0 == [G EXCEPT !.lastTime = timestamp]
    IN  IF G0.gameState \in {"LEVEL", "INFINITE"}
        THEN LET G1 == updateGame(G0, deltaMs)
             IN  IF G1.gameState = "LEVEL" THEN G1 ELSE updateScore(G1, deltaMs)
        ELSE G0

(***************************************************************************)
(* Input handling.                                                         *)
(***************************************************************************)
isButtonClicked(btn, x, y) ==
    x >= btn.x /\ x <= btn.x + btn.width /\ y >= btn.y /\ y <= btn.y + btn.height

\* The first level button, in index order, that the click is in; 0 if none.
ClickedLevel(G, x, y) ==
    LET hit == { i \in 1..LevelCount :
                    isButtonClicked(G.menuButtons[LevelKey[i]], x, y) }
    IN  IF hit = {} THEN 0 ELSE CHOOSE i \in hit : \A k \in hit : i <= k

\* resetPlayerAndObstacles(); generateObstacles(isInfinite); gameState = ...
startRun(G, isInfinite, rs) ==
    [generateObstacles(resetPlayerAndObstacles(G), isInfinite, rs)
        EXCEPT !.gameState = IF isInfinite THEN "INFINITE" ELSE "LEVEL"]

\* Faulty variant of clickMenu: the Infinite button does not reset the score.
clickMenu_KeepsScore(G, x, y, rs) ==
    IF isButtonClicked(G.menuButtons["levels"], x, y)
    THEN [G EXCEPT !.gameState = "LEVEL_SELECT"]
    ELSE IF isButtonClicked(G.menuButtons["infinite"], x, y)
    THEN startRun(G, TRUE, rs)
    ELSE G

\* The MENU branch (game.js:407-411).
clickMenu(G, x, y, rs) ==
    IF isButtonClicked(G.menuButtons["levels"], x, y)
    THEN [G EXCEPT !.gameState = "LEVEL_SELECT"]
    ELSE IF isButtonClicked(G.menuButtons["infinite"], x, y)
    THEN startRun([G EXCEPT !.score = 0], TRUE, rs)
    ELSE G

\* Faulty variant of clickLevelSelect: the index of the clicked button is
\* taken one too high.
clickLevelSelect_OffByOne(G, x, y, rs) ==
    IF isButtonClicked(G.menuButtons["back"], x, y)
    THEN [G EXCEPT !.gameState = "MENU"]
    ELSE IF ClickedLevel(G, x, y) # 0
    THEN startRun([G EXCEPT !.currentLevel = ClickedLevel(G, x, y) + 1], FALSE, rs)
    ELSE G

\* The LEVEL_SELECT branch (game.js:413-426).
clickLevelSelect(G, x, y, rs) ==
    IF isButtonClicked(G.menuButtons["back"], x, y)
    THEN [G EXCEPT !.gameState = "MENU"]
    ELSE IF ClickedLevel(G, x, y) # 0
    THEN startRun([G EXCEPT !.currentLevel = ClickedLevel(G, x, y)], FALSE, rs)
    ELSE G

\* Faulty variants of retry: a level retry moves on to the next level; an
\* infinite retry keeps the score of the crashed run.
retry_NextLevel(G, rs) ==
    IF G.previousGameState = "INFINITE"
    THEN [generateObstacles([resetPlayerAndObstacles(G) EXCEPT !.score = 0], TRUE, rs)
            EXCEPT !.gameState = "INFINITE"]
    ELSE [generateObstacles([resetPlayerAndObstacles(G) EXCEPT !.currentLevel = @ + 1],
                            FALSE, rs)
            EXCEPT !.gameState = "LEVEL"]

retry_KeepsScore(G, rs) ==
    IF G.previousGameState = "INFINITE"
    THEN [generateObstacles(resetPlayerAndObstacles(G), TRUE, rs)
            EXCEPT !.gameState = "INFINITE"]
    ELSE [generateObstacles(resetPlayerAndObstacles(G), FALSE, rs)
            EXCEPT !.gameState = "LEVEL"]

\* Faulty variant of retry: the player is left where the crash stopped it.
retry_KeepsPlayer(G, rs) ==
    IF G.previousGameState = "INFINITE"
    THEN [generateObstacles([G EXCEPT !.score = 0], TRUE, rs)
            EXCEPT !.gameState = "INFINITE"]
    ELSE [generateObstacles(G, FALSE, rs) EXCEPT !.gameState = "LEVEL"]

\* The Retry button (game.js:431-435).
retry(G, rs) ==
    IF G.previousGameState = "INFINITE"
    THEN [generateObstacles([resetPlayerAndObstacles(G) EXCEPT !.score = 0], TRUE, rs)
            EXCEPT !.gameState = "INFINITE"]
    ELSE [generateObstacles(resetPlayerAndObstacles(G), FALSE, rs)
            EXCEPT !.gameState = "LEVEL"]

\* The GAME_OVER branch (game.js:428-435).
clickGameOver(G, x, y, rs) ==
    IF isButtonClicked(G.menuButtons["gameOverMenu"], x, y)
    THEN [resetPlayerAndObstacles(G) EXCEPT !.score = 0, !.gameState = "MENU"]
    ELSE IF isButtonClicked(G.menuButtons["gameOverRetry"], x, y)
    THEN retry(G, rs)
    ELSE G

\* The LEVEL_COMPLETE branch (game.js:437-440).
clickLevelComplete(G, x, y) ==
    IF isButtonClicked(G.menuButtons["levelCompleteMenu"], x, y)
    THEN [G EXCEPT !.gameState = "MENU", !.score = 0]
    ELSE IF isButtonClicked(G.menuButtons["levelCompleteLevels"], x, y)
    THEN [G EXCEPT !.gameState = "LEVEL_SELECT"]
    ELSE G

\* rs is the stream of Math.random() draws a generation started by this click reads.
handleMouseDown(G, x, y, rs) ==
    CASE G.gameState = "MENU" -> clickMenu(G, x, y, rs)
      [] G.gameState = "LEVEL_SELECT" -> clickLevelSelect(G, x, y, rs)
      [] G.gameState = "GAME_OVER" -> clickGameOver(G, x, y, rs)
      [] G.gameState = "LEVEL_COMPLETE" -> clickLevelComplete(G, x, y)
      [] OTHER -> G

\* Faulty variant of handleKeyInput: the mode is not tested.
handleKeyInput_AnyMode(G, code) ==
    IF code \in {"Space", "ArrowUp"} THEN jump(G) ELSE G

handleKeyInput(G, code) ==
    IF G.gameState \in {"LEVEL", "INFINITE"} /\ code \in {"Space", "ArrowUp"}
    THEN jump(G)
    ELSE G

(***************************************************************************)
(* Events of the host.                                                     *)
(***************************************************************************)
\* The point a click aimed at target lands on under the current layout.
ClickPoint(target) ==
    IF target = "none" THEN [x |-> 5, y |-> 5]
    ELSE LET b == menuButtons[target]
         IN  [x |-> b.x + b.width \div 2, y |-> b.y + b.height \div 2]

\* requestAnimationFrame callback: time stamps never decrease.
TickWith(gaps, maxMs) ==
    \E gap \in gaps :
        /\ lastTime + gap <= maxMs
        /\ \E G \in {gameLoop(Cur, lastTime + gap)} : Becomes(G)
        /\ firstFrameDone' = TRUE

\* mousedown on the canvas
ClickFrom(targets, streams) ==
    \E target \in targets, rs \in streams :
        /\ \E G \in {handleMouseDown(Cur, ClickPoint(target).x, ClickPoint(target).y, rs)} :
              Becomes(G)
        /\ UNCHANGED firstFrameDone

ClickWith(targets) == ClickFrom(targets, RandomStreams)

\* keydown on the document
Key ==
    \E code \in KeyCodes :
        /\ \E G \in {handleKeyInput(Cur, code)} : Becomes(G)
        /\ UNCHANGED firstFrameDone

\* resize of the window
ResizeWith(viewports) ==
    \E vp \in viewports :
        /\ \E G \in {resizeCanvas(Cur, vp)} : Becomes(G)
        /\ UNCHANGED firstFrameDone

Tick == TickWith(FrameGapsMs, MaxTimeSec * 1000)
Resize == ResizeWith(Viewports)
Click == ClickWith(ClickTargets)

Next == Tick \/ Click \/ Key \/ Resize

Spec == Init /\ [][Next]_vars

TickLong == TickWith(LongFrameGapsMs, LongMaxTimeSec * 1000)
ClickLong == ClickWith(LongClickTargets)

NextLong == TickLong \/ ClickLong \/ Key

SpecLong == InitLong /\ [][NextLong]_vars

TickPhys == TickWith(PhysFrameGapsMs, PhysMaxTimeMs)
ClickPhys == ClickWith(PhysClickTargets)

ResizePhys == ResizeWith(PhysViewports)

NextPhys == TickPhys \/ ClickPhys \/ Key \/ ResizePhys

SpecPhys == InitPhys /\ [][NextPhys]_vars

TickResize == TickWith(ResizeFrameGapsMs, ResizeMaxTimeMs)
ClickResize == ClickWith(ResizeClickTargets)
ResizeAny == ResizeWith(ResizeViewports)

NextResize == TickResize \/ ClickResize \/ Key \/ ResizeAny

SpecResize == InitResize /\ [][NextResize]_vars

\* requestAnimationFrame callback; the frames of a level run may go on past
\* the bound of the others.
TickLive ==
    \E gap \in LiveFrameGapsMs :
        /\ lastTime + gap <=
              (LiveMaxTimeSec + IF gameState = "LEVEL" THEN LiveRunBudgetSec ELSE 0) * 1000
        /\ \E G \in {gameLoop(Cur, lastTime + gap)} : Becomes(G)
        /\ firstFrameDone' = TRUE

\* mousedown on the canvas; the time bound also ends the clicks, so that a
\* run never starts later than it.
ClickLive == lastTime <= LiveMaxTimeSec * 1000 /\ ClickWith(LiveClickTargets)

NextLive == TickLive \/ ClickLive \/ Key

\* gameLoop requests the next frame at its end (game.js:152), so frames never
\* stop coming.
SpecLive == InitLive /\ [][NextLive]_vars /\ WF_vars(TickLive)

TickLast == TickWith(LastFrameGapsMs, LastMaxTimeSec * 1000)
ClickLast == ClickWith(LastClickTargets)

NextLast == TickLast \/ ClickLast

SpecLast == InitLast /\ [][NextLast]_vars

TickShrink == TickWith(ShrinkFrameGapsMs, ShrinkMaxTimeMs)
\* mousedown is a listener of the canvas: the point lies on the canvas.
ClickShrink ==
    \E target \in ShrinkClickTargets, rs \in RandomStreams :
        /\ ClickPoint(target).x < canvas.width
        /\ ClickPoint(target).y < canvas.height
        /\ \E G \in {handleMouseDown(Cur, ClickPoint(target).x, ClickPoint(target).y, rs)} :
              Becomes(G)
        /\ UNCHANGED firstFrameDone
ResizeShrink == ResizeWith(ShrinkViewports)

NextShrink == TickShrink \/ ClickShrink \/ Key \/ ResizeShrink

SpecShrink == InitShrink /\ [][NextShrink]_vars

TickGen == TickWith(GenFrameGapsMs, GenMaxTimeSec * 1000)
ClickGen == ClickFrom(GenClickTargets, GenRandomStreams)

NextGen == TickGen \/ ClickGen

SpecGen == InitGen /\ [][NextGen]_vars


(***************************************************************************)
(* Vocabulary of the properties.                                           *)
(***************************************************************************)
PlayModes == {"LEVEL", "INFINITE"}

\* The step is a frame callback; its time stamp is lastTime'.
FrameStep ==
    /\ lastTime' >= lastTime
    /\ firstFrameDone'
    /\ Cur' = gameLoop(Cur, lastTime')

\* The step is a mousedown at the centre of some button or outside all of them.
ClickStep ==
    /\ UNCHANGED firstFrameDone
    /\ \E target \in DOMAIN menuButtons \cup {"none"}, rs \in RandomStreams :
          Cur' = handleMouseDown(Cur, ClickPoint(target).x, ClickPoint(target).y, rs)

\* The player as the physics step of this frame leaves it, and the obstacles
\* as a complete scroll of this frame would leave them.
SteppedPlayer == updatePlayer(Cur).player
Scrolled(i) ==
    [levelObstacles[i] EXCEPT !.x = @ - ScrollDx(Cur, lastTime' - lastTime)]
CollisionThisFrame ==
    \E i \in 1..Len(levelObstacles) : Overlaps(Hitbox(SteppedPlayer), Scrolled(i))

\* The player stands at the start position of a run.
PlayerAtStart(p) ==
    /\ p.x * 10 = canvas.width * 5
    /\ p.y + p.height = canvas.height * 10 - groundHeight
    /\ p.velocityY = 0
    /\ p.isGrounded

(***************************************************************************)
(* C1.  Score is only incremented while the mode is INFINITE: a frame      *)
(* taken in, or ending in, any other mode leaves score unchanged (so a run *)
(* in LEVEL mode, its collision frame and its level-complete frame         *)
(* included, never changes score).                                         *)
(***************************************************************************)
C1_ScoreOnlyInInfinite ==
    [][(FrameStep /\ (gameState # "INFINITE" \/ gameState' # "INFINITE"))
          => score' = score]_vars

(***************************************************************************)
(* C2, as stated.  The level index never decreases, and it changes only   *)
(* on a LEVEL -> LEVEL_COMPLETE frame, by exactly 1.                       *)
(***************************************************************************)
C2_LevelOnlyAdvances ==
    [][/\ currentLevel' >= currentLevel
       /\ currentLevel' # currentLevel =>
            /\ FrameStep
            /\ gameState = "LEVEL" /\ gameState' = "LEVEL_COMPLETE"
            /\ currentLevel' = currentLevel + 1]_vars

(***************************************************************************)
(* C2, amended.  The level index changes only (a) on a LEVEL ->            *)
(* LEVEL_COMPLETE frame, where it increases by exactly 1, or (b) on a      *)
(* click in LEVEL_SELECT that starts a level, where it becomes the index   *)
(* 1..50 of the clicked button (higher or lower than before); and every    *)
(* LEVEL -> LEVEL_COMPLETE step increases it by exactly 1.                 *)
(***************************************************************************)
C2_LevelChanges ==
    [][/\ currentLevel' # currentLevel =>
            \/ /\ FrameStep
               /\ gameState = "LEVEL" /\ gameState' = "LEVEL_COMPLETE"
               /\ currentLevel' = currentLevel + 1
            \/ /\ ClickStep
               /\ gameState = "LEVEL_SELECT" /\ gameState' = "LEVEL"
               /\ currentLevel' \in 1..LevelCount
       /\ (gameState = "LEVEL" /\ gameState' = "LEVEL_COMPLETE") =>
            currentLevel' = currentLevel + 1]_vars

\* Level 1 has been completed.
C2_Witness == gameState = "LEVEL_COMPLETE" /\ currentLevel = 2

(***************************************************************************)
(* C3.  The level index is within 1..50 in every reachable state.          *)
(***************************************************************************)
C3_LevelInRange == currentLevel \in 1..LevelCount

C5_FirstFrameElapsesNothing ==
    [][(FrameStep /\ ~firstFrameDone) =>
          /\ score' = score
          /\ Len(levelObstacles') = Len(levelObstacles)
          /\ \A i \in 1..Len(levelObstacles) : levelObstacles'[i].x = levelObstacles[i].x]_vars

(***************************************************************************)
(* C6.  Level completion exactness: a frame in LEVEL on which, after       *)
(* scrolling, the last obstacle has x < -width and no obstacle overlaps    *)
(* the hitbox, ends in LEVEL_COMPLETE with currentLevel increased by       *)
(* exactly 1, the player at the start position and the sequence emptied.   *)
(***************************************************************************)
C6_LevelCompletion ==
    [][(/\ FrameStep
        /\ gameState = "LEVEL"
        /\ levelObstacles # <<>>
        /\ Scrolled(Len(levelObstacles)).x < -Scrolled(Len(levelObstacles)).width
        /\ ~CollisionThisFrame) =>
          /\ gameState' = "LEVEL_COMPLETE"
          /\ currentLevel' = currentLevel + 1
          /\ levelObstacles' = <<>>
          /\ PlayerAtStart(player')]_vars

\* Level 2 has been completed.
C6_Witness ==
    /\ gameState = "LEVEL_COMPLETE" /\ currentLevel = 3
    /\ levelObstacles = <<>> /\ PlayerAtStart(player)

(***************************************************************************)
(* C7.  A frame in LEVEL or INFINITE that detects a collision ends in      *)
(* GAME_OVER with previousGameState the mode the frame started in,         *)
(* velocityY 0 and isGrounded true; GAME_OVER is entered in no other way,  *)
(* and in every GAME_OVER state previousGameState is LEVEL or INFINITE.    *)
(***************************************************************************)
C7_CollisionToGameOver ==
    /\ [](gameState = "GAME_OVER" => previousGameState \in PlayModes)
    /\ [][/\ (FrameStep /\ gameState \in PlayModes /\ CollisionThisFrame) =>
                /\ gameState' = "GAME_OVER"
                /\ previousGameState' = gameState
                /\ player'.velocityY = 0
                /\ player'.isGrounded
          /\ (gameState # "GAME_OVER" /\ gameState' = "GAME_OVER") =>
                /\ gameState \in PlayModes
                /\ previousGameState' = gameState]_vars

\* A level run has crashed.
C7_Witness == gameState = "GAME_OVER" /\ previousGameState = "LEVEL"

(***************************************************************************)
(* C8.  Retry: the step from GAME_OVER into a run enters the mode recorded *)
(* in previousGameState with the player at the start position and          *)
(* currentLevel unchanged; for previousGameState = LEVEL the sequence is   *)
(* one generated for that unchanged level.                                 *)
(***************************************************************************)
C8_Retry ==
    [][(gameState = "GAME_OVER" /\ gameState' \in PlayModes) =>
          /\ gameState' = previousGameState
          /\ currentLevel' = currentLevel
          /\ PlayerAtStart(player')
          /\ previousGameState = "LEVEL" =>
                \E rs \in RandomStreams :
                    levelObstacles' =
                        GenLoop(Cur, 100 + (currentLevel - 1) * 15,
                                (800 + currentLevel * 100) * 10, rs,
                                canvas.width * 6, 0, <<>>, 0)]_vars

\* A level run that was entered after a level crash, with the crash frame's
\* time on the clock.
C8_Witness ==
    /\ gameState = "LEVEL" /\ previousGameState = "LEVEL"
    /\ currentLevel = 2 /\ lastTime >= 3000
    /\ PlayerAtStart(player)

(***************************************************************************)
(* C9.  Score resets per infinite run: every step that enters INFINITE     *)
(* leaves score = 0, and no step inside an infinite run decreases score.   *)
(***************************************************************************)
C9_ScorePerRun ==
    [][gameState' = "INFINITE" =>
          IF gameState = "INFINITE" THEN score' >= score ELSE score' = 0]_vars

\* An infinite run started after a level run had crashed.
C9_Witness ==
    /\ gameState = "INFINITE" /\ previousGameState = "LEVEL"
    /\ score = 0 /\ levelObstacles # <<>>

(***************************************************************************)
(* C10.  The machine starts in MENU and every change of gameState is an    *)
(* edge of the transition table, taken by the kind of event the table      *)
(* names.                                                                  *)
(***************************************************************************)
ClickEdges ==
    { <<"MENU", "LEVEL_SELECT">>, <<"MENU", "INFINITE">>,
      <<"LEVEL_SELECT", "MENU">>, <<"LEVEL_SELECT", "LEVEL">>,
      <<"GAME_OVER", "MENU">>, <<"GAME_OVER", "LEVEL">>, <<"GAME_OVER", "INFINITE">>,
      <<"LEVEL_COMPLETE", "MENU">>, <<"LEVEL_COMPLETE", "LEVEL_SELECT">> }

FrameEdges ==
    { <<"LEVEL", "GAME_OVER">>, <<"INFINITE", "GAME_OVER">>,
      <<"LEVEL", "LEVEL_COMPLETE">> }

C10_TransitionTable ==
    /\ gameState = "MENU"
    /\ [][gameState' # gameState =>
            \/ <<gameState, gameState'>> \in ClickEdges /\ ClickStep
            \/ <<gameState, gameState'>> \in FrameEdges /\ FrameStep]_vars

\* The level selector reached again after level 2 was completed.
C10_Witness == gameState = "LEVEL_SELECT" /\ currentLevel = 3


(***************************************************************************)
(* C11.  Malformed input is a no-op: a click inside none of the buttons    *)
(* the current mode offers, any click in LEVEL or INFINITE, and a jump key *)
(* in a mode other than LEVEL or INFINITE each leave gameState,            *)
(* currentLevel, score, previousGameState, player and levelObstacles       *)
(* unchanged.                                                              *)
(***************************************************************************)
\* The buttons a mode tests a click against.
OfferedButtons(mode) ==
    CASE mode = "MENU" -> {"levels", "infinite"}
      [] mode = "LEVEL_SELECT" -> {"back"} \cup { LevelKey[i] : i \in 1..LevelCount }
      [] mode = "GAME_OVER" -> {"gameOverMenu", "gameOverRetry"}
      [] mode = "LEVEL_COMPLETE" -> {"levelCompleteMenu", "levelCompleteLevels"}
      [] OTHER -> {}

InsideOffered(pt) ==
    \E n \in OfferedButtons(gameState) :
        /\ pt.x >= menuButtons[n].x /\ pt.x <= menuButtons[n].x + menuButtons[n].width
        /\ pt.y >= menuButtons[n].y /\ pt.y <= menuButtons[n].y + menuButtons[n].height

\* Points a click is tried at: the centre of every fixed button and of three
\* level buttons, the points one pixel outside the left and the bottom edge of
\* those, and a point outside every button.
ProbeButtons ==
    {"levels", "infinite", "back", "gameOverMenu", "gameOverRetry",
     "levelCompleteMenu", "levelCompleteLevels", "level_1", "level_2", "level_50"}

ProbePoints ==
    { ClickPoint(n) : n \in ProbeButtons \cup {"none"} }
    \cup { [x |-> menuButtons[n].x - 1, y |-> menuButtons[n].y] : n \in ProbeButtons }
    \cup { [x |-> menuButtons[n].x, y |-> menuButtons[n].y + menuButtons[n].height + 1] :
            n \in ProbeButtons }

SameRun(G) ==
    /\ G.gameState = gameState
    /\ G.currentLevel = currentLevel
    /\ G.score = score
    /\ G.previousGameState = previousGameState
    /\ G.player = player
    /\ G.levelObstacles = levelObstacles

C11_MalformedInputIgnored ==
    /\ \A pt \in ProbePoints, rs \in RandomStreams :
          ~InsideOffered(pt) => SameRun(handleMouseDown(Cur, pt.x, pt.y, rs))
    /\ gameState \notin PlayModes =>
          \A code \in KeyCodes : SameRun(handleKeyInput(Cur, code))

\* A crashed run on screen (obstacles kept, player stopped in the air) while
\* the level-1 button, which GAME_OVER does not offer, is not under any
\* offered button.
C11_Witness ==
    /\ gameState = "GAME_OVER"
    /\ levelObstacles # <<>>
    /\ player.y + player.height < canvas.height * 10 - groundHeight
    /\ ~InsideOffered(ClickPoint("level_1"))

(***************************************************************************)
(* C12.  Only LEVEL and INFINITE simulate: a frame taken in MENU,          *)
(* LEVEL_SELECT, GAME_OVER or LEVEL_COMPLETE leaves the player, every      *)
(* obstacle, score, currentLevel, previousGameState and the mode           *)
(* unchanged, whatever the elapsed time.                                   *)
(***************************************************************************)
C12_OnlyPlayModesSimulate ==
    [][(FrameStep /\ gameState \notin PlayModes) =>
          UNCHANGED <<player, levelObstacles, score, currentLevel,
                      previousGameState, gameState>>]_vars

\* A crashed infinite run on screen after at least three frames, its
\* obstacles and the crash frame's score still in place.
C12_Witness ==
    /\ gameState = "GAME_OVER" /\ previousGameState = "INFINITE"
    /\ score = 750 /\ lastTime >= 9000
    /\ levelObstacles # <<>>


(***************************************************************************)
(* C13.  Score accrual: in INFINITE every frame adds exactly               *)
(* 250 * elapsed seconds to score, so frames without a collision whose     *)
(* elapsed times sum to T seconds raise score by exactly 250 * T (500 for  *)
(* T = 2.0), however T is split into frames.                               *)
(***************************************************************************)
\* Ways to split 2.0 s into frames, in ms.
TwoSecondSplits ==
    { <<2000>>, <<1000, 1000>>, <<500, 1500>>, <<20, 1980>>, <<0, 2000>>,
      <<500, 500, 1000>>, <<1000, 20, 980>> }

\* The state after frames with the given gaps, from G.
RECURSIVE AfterFrames(_, _)
AfterFrames(G, gaps) ==
    IF gaps = <<>> THEN G
    ELSE AfterFrames(gameLoop(G, G.lastTime + Head(gaps)), Tail(gaps))

\* No frame of the split but possibly the last ends the run.
RECURSIVE RunSurvives(_, _)
RunSurvives(G, gaps) ==
    \/ Len(gaps) <= 1
    \/ LET G1 == gameLoop(G, G.lastTime + Head(gaps))
       IN  G1.gameState = "INFINITE" /\ RunSurvives(G1, Tail(gaps))

C13_ScoreAccrual ==
    /\ [][(FrameStep /\ gameState = "INFINITE") =>
             score' * 1000 = score * 1000 + 250 * (lastTime' - lastTime)]_vars
    /\ [](gameState = "INFINITE" =>
             \A gaps \in TwoSecondSplits :
                 RunSurvives(Cur, gaps) => AfterFrames(Cur, gaps).score = score + 500)

\* An infinite run that has lasted two frames of 3 s.
C13_Witness ==
    gameState = "INFINITE" /\ score = 1500 /\ lastTime >= 6000


(***************************************************************************)
(* C14.  Jump is a no-op while airborne: jump() with isGrounded false      *)
(* changes neither velocityY nor y nor isGrounded (no double jump); with   *)
(* isGrounded true it sets isGrounded to false and velocityY to            *)
(* jumpStrength.                                                           *)
(***************************************************************************)
JumpKeyStep ==
    /\ UNCHANGED firstFrameDone
    /\ \E code \in {"Space", "ArrowUp"} : Cur' = handleKeyInput(Cur, code)

C14_JumpOnlyWhenGrounded ==
    /\ [][(JumpKeyStep /\ gameState \in PlayModes) =>
             IF player.isGrounded
             THEN /\ ~player'.isGrounded
                  /\ player'.velocityY = player.jumpStrength
                  /\ player'.y = player.y
             ELSE player' = player]_vars
    /\ [](~player.isGrounded =>
             /\ jump(Cur) = Cur
             /\ gameState \in PlayModes =>
                   \A code \in KeyCodes : handleKeyInput(Cur, code) = Cur)

\* The player rising in a run, at least one frame after the jump.
C14_Witness ==
    /\ gameState \in PlayModes
    /\ ~player.isGrounded
    /\ player.velocityY < 0 /\ player.velocityY > player.jumpStrength


(***************************************************************************)
(* C15.  Collision early exit: on a frame whose first overlapping obstacle *)
(* has index k, the obstacles with index <= k have had the scroll distance *)
(* subtracted from x and every obstacle with index > k keeps its x.        *)
(***************************************************************************)
Hit(i) == Overlaps(Hitbox(SteppedPlayer), Scrolled(i))

FirstHit ==
    CHOOSE k \in 1..Len(levelObstacles) : Hit(k) /\ \A j \in 1..(k - 1) : ~Hit(j)

C15_CollisionEarlyExit ==
    [][(FrameStep /\ gameState \in PlayModes /\ CollisionThisFrame) =>
          /\ Len(levelObstacles') = Len(levelObstacles)
          /\ \A i \in 1..Len(levelObstacles) :
                levelObstacles'[i] =
                    IF i <= FirstHit THEN Scrolled(i) ELSE levelObstacles[i]]_vars

\* A crashed run in which two neighbours are further apart than any gap
\* generateObstacles leaves (at most 420 - 60 + 95 px): the nearer one was
\* scrolled by the crash frame, the farther one was not.
C15_Witness ==
    /\ gameState = "GAME_OVER"
    /\ \E k \in 1..(Len(levelObstacles) - 1) :
          levelObstacles[k + 1].x - (levelObstacles[k].x + levelObstacles[k].width)
              > 4200 - 600 + 950


(***************************************************************************)
(* C16.  Collision and level completion are mutually exclusive outcomes of *)
(* one frame: no frame both enters GAME_OVER and increments currentLevel   *)
(* or enters LEVEL_COMPLETE; a frame of a run in which a collision is      *)
(* found ends in GAME_OVER with currentLevel unchanged.                    *)
(***************************************************************************)
C16_CollisionExcludesCompletion ==
    [][FrameStep =>
          /\ (gameState # "GAME_OVER" /\ gameState' = "GAME_OVER") =>
                currentLevel' = currentLevel
          /\ (gameState \in PlayModes /\ CollisionThisFrame) =>
                gameState' = "GAME_OVER" /\ currentLevel' = currentLevel]_vars

\* A run of level 2 that crashed: the obstacle it ran into is still under
\* the hitbox and the index is still 2.
C16_Witness ==
    /\ gameState = "GAME_OVER" /\ previousGameState = "LEVEL"
    /\ currentLevel = 2
    /\ \E i \in 1..Len(levelObstacles) : Overlaps(Hitbox(player), levelObstacles[i])

(***************************************************************************)
(* C17.  Level completion is detected only in LEVEL: a frame taken in      *)
(* INFINITE never goes to LEVEL_COMPLETE and never changes currentLevel,   *)
(* even when the last obstacle has scrolled past the left edge             *)
(* (x < -width).                                                           *)
(***************************************************************************)
C17_InfiniteNeverCompletes ==
    [][(FrameStep /\ gameState = "INFINITE") =>
          gameState' # "LEVEL_COMPLETE" /\ currentLevel' = currentLevel]_vars

\* An infinite run still going with its whole sequence past the left edge.
C17_Witness ==
    /\ gameState = "INFINITE"
    /\ levelObstacles # <<>>
    /\ LET last == levelObstacles[Len(levelObstacles)] IN last.x < -last.width


(***************************************************************************)
(* C18.  Every run begins from the ground-level start state: at each entry *)
(* into LEVEL or INFINITE (first start, level selection or Retry) the      *)
(* player has x = 0.05 * canvas.width, y + height = canvas.height -        *)
(* groundHeight, velocityY = 0 and isGrounded, and the obstacle sequence   *)
(* is one generated for this run; no obstacle of an earlier run survives.  *)
(***************************************************************************)
\* The sequence generateObstacles builds from nothing for the run G is in.
FreshSequence(G, rs) ==
    GenLoop(G, Difficulty(G.gameState = "INFINITE", G.score, G.currentLevel),
            MaxDist(G.gameState = "INFINITE", G.currentLevel), rs,
            G.canvas.width * 6, 0, <<>>, 0)

C18_RunStartsFromStart ==
    [][(gameState \notin PlayModes /\ gameState' \in PlayModes) =>
          /\ PlayerAtStart(player)'
          /\ \E rs \in RandomStreams : levelObstacles' = FreshSequence(Cur', rs)]_vars

\* A level run entered after an earlier level run crashed, not yet scrolled,
\* with the player on the ground at the start position.
C18_Witness ==
    /\ gameState = "LEVEL" /\ previousGameState = "LEVEL"
    /\ PlayerAtStart(player)
    /\ \E rs \in RandomStreams : levelObstacles = FreshSequence(Cur, rs)


(***************************************************************************)
(* C19.  Monotonic obstacle placement: in every sequence generateObstacles *)
(* produces (any level, any viewport, any draws), obstacles[i+1].x >=      *)
(* obstacles[i].x at generation time; precisely, obstacles[i+1].x =        *)
(* obstacles[i].x + obstacles[i].width + gap with                          *)
(* gap >= minGap = max(1.6 * player.width, 40).                            *)
(***************************************************************************)
GapAfter(obs, i) == obs[i + 1].x - (obs[i].x + obs[i].width)

C19_MonotonicPlacement ==
    [][(gameState \notin PlayModes /\ gameState' \in PlayModes) =>
          \A i \in 1..(Len(levelObstacles') - 1) :
              /\ levelObstacles'[i + 1].x >= levelObstacles'[i].x
              /\ GapAfter(levelObstacles', i) >= Max((player'.width * 16) \div 10, 400)]_vars

\* A run of level 50 just generated: ten obstacles or more, the first two
\* exactly minGap apart.
C19_Witness ==
    /\ gameState = "LEVEL" /\ currentLevel = LevelCount /\ lastTime = 0
    /\ Len(levelObstacles) >= 10
    /\ GapAfter(levelObstacles, 1) = Max((player.width * 16) \div 10, 400)


(***************************************************************************)
(* C20.  Physics integration is independent of elapsed time: the physics   *)
(* step applied to the same player yields the same y, velocityY and        *)
(* isGrounded for every elapsed time (gravity is added once per frame,     *)
(* unscaled), so a frame with no time elapsed still moves an airborne      *)
(* player while it moves no obstacle.                                      *)
(***************************************************************************)
\* Elapsed times, in ms, the next frame is tried with.
ElapsedProbesMs == {0, 20, 1000}

FrameAfter(deltaMs) == gameLoop(Cur, lastTime + deltaMs)

C20_PhysicsIgnoresElapsedTime ==
    gameState \in PlayModes =>
        /\ \A d1, d2 \in ElapsedProbesMs :
              (FrameAfter(d1).gameState = gameState /\ FrameAfter(d2).gameState = gameState)
                  => FrameAfter(d1).player = FrameAfter(d2).player
        /\ \A i \in 1..Len(FrameAfter(0).levelObstacles) :
              FrameAfter(0).levelObstacles[i] = levelObstacles[i]
        /\ ~player.isGrounded =>
              /\ FrameAfter(0).player # player
              /\ FrameAfter(0).player.velocityY # 0 =>
                    FrameAfter(0).player.y = player.y + FrameAfter(0).player.velocityY

\* The player in the air, past the first frame of its jump, in a run whose
\* frames all carried time stamp 0: the sequence is where generateObstacles
\* put it.
C20_Witness ==
    /\ gameState \in PlayModes
    /\ firstFrameDone /\ lastTime = 0
    /\ ~player.isGrounded
    /\ player.velocityY > player.jumpStrength + player.gravity
    /\ \E rs \in RandomStreams : levelObstacles = FreshSequence(Cur, rs)

(***************************************************************************)
(* C21.  A collision is reported exactly when the player's hitbox          *)
(* (x + 0.12 * width, y + 0.18 * height, 0.76 * width, 0.68 * height, of   *)
(* the player as the physics step of the same frame left it) strictly      *)
(* overlaps an obstacle after scrolling; rectangles that only touch along  *)
(* an edge do not collide, and the hitbox (100, 180, 30, 27) collides with *)
(* the obstacle (110, 190, 20, 20).                                        *)
(***************************************************************************)
\* The rectangle the statement names, from the player's rectangle.
StatedHitbox(p) ==
    [x |-> p.x + (12 * p.width) \div 100, y |-> p.y + (18 * p.height) \div 100,
     width |-> (76 * p.width) \div 100, height |-> (68 * p.height) \div 100]

\* Two rectangles share interior points.
ShareInterior(a, b) ==
    /\ Max(a.x, b.x) < Min(a.x + a.width, b.x + b.width)
    /\ Max(a.y, b.y) < Min(a.y + a.height, b.y + b.height)

\* Squares of side 10 px that touch the rectangle hb along each of its edges,
\* and the same squares moved a tenth of a pixel into it.
TouchingSquares(hb) ==
    { [x |-> hb.x + hb.width, y |-> hb.y, width |-> 100, height |-> 100],
      [x |-> hb.x - 100, y |-> hb.y, width |-> 100, height |-> 100],
      [x |-> hb.x, y |-> hb.y + hb.height, width |-> 100, height |-> 100],
      [x |-> hb.x, y |-> hb.y - 100, width |-> 100, height |-> 100] }

NudgedSquares(hb) ==
    { [x |-> hb.x + hb.width - 1, y |-> hb.y, width |-> 100, height |-> 100],
      [x |-> hb.x - 99, y |-> hb.y, width |-> 100, height |-> 100],
      [x |-> hb.x, y |-> hb.y + hb.height - 1, width |-> 100, height |-> 100],
      [x |-> hb.x, y |-> hb.y - 99, width |-> 100, height |-> 100] }

C21_CollisionIffStrictOverlap ==
    /\ [][(FrameStep /\ gameState \in PlayModes) =>
             (gameState' = "GAME_OVER" <=>
                 \E i \in 1..Len(levelObstacles) :
                     ShareInterior(StatedHitbox(SteppedPlayer), Scrolled(i)))]_vars
    /\ [](/\ Hitbox(player) = StatedHitbox(player)
          /\ \A o \in TouchingSquares(Hitbox(player)) : ~Overlaps(Hitbox(player), o)
          /\ \A o \in NudgedSquares(Hitbox(player)) : Overlaps(Hitbox(player), o)
          /\ Overlaps([x |-> 1000, y |-> 1800, width |-> 300, height |-> 270],
                      [x |-> 1100, y |-> 1900, width |-> 200, height |-> 200]))

\* A run that crashed with the player in the air: the obstacle it ran into
\* shares interior points with the hitbox taken at the player's height.
C21_Witness ==
    /\ gameState = "GAME_OVER"
    /\ player.y + player.height < canvas.height * 10 - groundHeight
    /\ \E i \in 1..Len(levelObstacles) :
          ShareInterior(StatedHitbox(player), levelObstacles[i])

(***************************************************************************)
(* C22.  Resize idempotence: from any reachable state, resizeCanvas twice  *)
(* in a row with the same viewport yields the same player geometry and     *)
(* constants (width, height, x, y, gravity, jumpStrength,                  *)
(* terminalVelocity), the same groundHeight and the same button layout as  *)
(* resizeCanvas once.                                                      *)
(***************************************************************************)
Geometry(G) ==
    <<G.player.width, G.player.height, G.player.x, G.player.y, G.player.gravity,
      G.player.jumpStrength, G.player.terminalVelocity, G.groundHeight, G.menuButtons>>

C22_ResizeIdempotent ==
    \A vp \in Viewports :
        \E once \in {resizeCanvas(Cur, vp)} :
            \E twice \in {resizeCanvas(once, vp)} : Geometry(twice) = Geometry(once)

\* A run in which a resize put the rising player back on the ground line.
C22_Witness ==
    /\ gameState \in PlayModes
    /\ ~player.isGrounded
    /\ player.velocityY < 0 /\ player.velocityY # player.jumpStrength
    /\ player.y + player.height = canvas.height * 10 - groundHeight

(***************************************************************************)
(* C23.  Difficulty monotonicity: the level-mode scalar                    *)
(* 1 + (currentLevel - 1) * 0.15 is non-decreasing in currentLevel over    *)
(* 1..50, and the infinite-mode scalar 1 + floor(score / 500) * 0.2 is     *)
(* non-decreasing in score.                                                *)
(***************************************************************************)
\* Scores the scalar is compared at, in points.
ScoreProbes == {0, 1, 499, 500, 501, 750, 999, 1000, 1500, 2250, 3000, 100000}

C23_DifficultyMonotone ==
    /\ \A n \in 1..(LevelCount - 1) :
          Difficulty(FALSE, score, n + 1) >= Difficulty(FALSE, score, n)
    /\ Difficulty(FALSE, score, currentLevel + 1) >= Difficulty(FALSE, score, currentLevel)
    /\ \A s \in ScoreProbes :
          /\ s >= score =>
                Difficulty(TRUE, s, currentLevel) >= Difficulty(TRUE, score, currentLevel)
          /\ s <= score =>
                Difficulty(TRUE, s, currentLevel) <= Difficulty(TRUE, score, currentLevel)
    /\ \A s1, s2 \in ScoreProbes :
          s1 <= s2 => Difficulty(TRUE, s1, currentLevel) <= Difficulty(TRUE, s2, currentLevel)

\* An infinite run whose score has climbed far enough for a larger scalar.
C23_Witness ==
    /\ gameState = "INFINITE"
    /\ Difficulty(TRUE, score, currentLevel) > Difficulty(TRUE, 0, currentLevel)

(***************************************************************************)
(* C24.  No off-screen jump: for any viewport size and any interleaving of *)
(* jumps, frames and resizes, the player's y never goes below 0 before     *)
(* clamping, that is, the ceiling-clamp branch of updatePlayer is never    *)
(* taken.                                                                  *)
(***************************************************************************)
\* player.y as updatePlayer has it when it reaches the ceiling test
\* (game.js:170-188): after the gravity step and the ground snap.
YBeforeClamp ==
    LET v1 == Min(player.velocityY + player.gravity, player.terminalVelocity)
        y1 == IF player.isGrounded THEN player.y ELSE player.y + v1
    IN  IF y1 + player.height > canvas.height * 10 - groundHeight
        THEN canvas.height * 10 - groundHeight - player.height
        ELSE y1

C24_NoOffScreenJump ==
    [][(FrameStep /\ gameState \in PlayModes) => YBeforeClamp >= 0]_vars

(***************************************************************************)
(* C25.  Every level run ends: from any state in LEVEL, if frames keep     *)
(* coming with an elapsed time bounded below by a positive constant, the   *)
(* machine eventually leaves LEVEL for GAME_OVER or LEVEL_COMPLETE,        *)
(* whatever jumps come in between.                                         *)
(***************************************************************************)
\* Frames of every length keep coming while a level run lasts: the bound on
\* the time stamps is not what ends it.
FramesKeepComing ==
    gameState = "LEVEL" =>
        \A gap \in LiveFrameGapsMs :
            lastTime + gap <= (LiveMaxTimeSec + LiveRunBudgetSec) * 1000

C25_LevelRunEnds ==
    /\ []FramesKeepComing
    /\ (gameState = "LEVEL") ~> (gameState \in {"GAME_OVER", "LEVEL_COMPLETE"})

\* A level run that the player got through by jumping: completed, with a
\* frame of the run taken after the time bound of the frames outside runs.
C25_Witness ==
    /\ gameState = "LEVEL_COMPLETE"
    /\ lastTime > LiveMaxTimeSec * 1000

(***************************************************************************)
(* C26.  Whenever the mode is LEVEL, and whenever a level sequence is      *)
(* generated, currentLevel is within 1..50, also after level 50 has been   *)
(* completed: no sequence of completions, crashes, retries and menu        *)
(* navigation starts or retries a level run with an index outside 1..50.   *)
(***************************************************************************)
\* A level run is on, or Retry would start one.
LevelRunInReach ==
    \/ gameState = "LEVEL"
    \/ gameState = "GAME_OVER" /\ previousGameState = "LEVEL"

C26_LevelRunsInRange == LevelRunInReach => currentLevel \in 1..LevelCount

\* Level 50 has been completed after a level run had crashed: the index
\* stands at 51 and the last crashed run was a level run.
C26_Witness ==
    /\ gameState = "LEVEL_COMPLETE" /\ currentLevel = LevelCount + 1
    /\ previousGameState = "LEVEL"

(***************************************************************************)
(* C27.  Generation always yields a non-empty sequence: for every level    *)
(* 1..50 and every viewport width, also where the starting cursor          *)
(* 0.6 * canvas.width already reaches the target length                    *)
(* 800 + 100 * currentLevel, the sequence holds at least one obstacle;     *)
(* hence levelObstacles is non-empty whenever the mode is LEVEL or         *)
(* INFINITE.                                                               *)
(***************************************************************************)
\* Canvas widths, in pixels, generation is tried with at the start of a
\* session; from 1500 on the cursor starts at or past the target of level 1,
\* at 10000 past that of every level.
WidthProbes == {0, 800, 1499, 1500, 1600, 10000}

GeneratedAt(w, n, rs) ==
    generateObstacles([Cur EXCEPT !.canvas.width = w, !.currentLevel = n], FALSE, rs)

C27_SequenceNonEmpty ==
    /\ gameState \in PlayModes => Len(levelObstacles) >= 1
    /\ (gameState = "MENU" /\ lastTime = 0 /\ score = 0) =>
          \A w \in WidthProbes, n \in 1..LevelCount, rs \in GenRandomStreams :
              Len(GeneratedAt(w, n, rs).levelObstacles) >= 1

\* A level run on a canvas so wide that the cursor starts past the target
\* length: the sequence has exactly one obstacle.
C27_Witness ==
    /\ gameState = "LEVEL"
    /\ canvas.width * 6 >= MaxDist(FALSE, currentLevel)
    /\ Len(levelObstacles) = 1

(***************************************************************************)
(* C28.  Infinite-mode generation is only ever invoked with score = 0 and  *)
(* the sequence is never regenerated during a run, so the difficulty       *)
(* scalar of every infinite-mode obstacle sequence is exactly 1,           *)
(* regardless of how high score climbs in that run or in earlier runs.     *)
(*                                                                         *)
(* Every step into INFINITE leaves score = 0 and a sequence generated      *)
(* with difficulty 1; every step that stays in INFINITE keeps the number   *)
(* of obstacles and the size of each of them.                              *)
(***************************************************************************)
\* The sequence generateObstacles(true) builds in G at difficulty 1.
DifficultyOneSequence(G, rs) ==
    GenLoop(G, 100, MaxDist(TRUE, G.currentLevel), rs, G.canvas.width * 6, 0, <<>>, 0)

\* The obstacles have the sizes and the spacing of sequence fresh.
SameShape(obs, fresh) ==
    /\ Len(obs) = Len(fresh)
    /\ \A i \in 1..Len(obs) :
          /\ obs[i].width = fresh[i].width
          /\ obs[i].height = fresh[i].height
          /\ i < Len(obs) => obs[i + 1].x - obs[i].x = fresh[i + 1].x - fresh[i].x

OrderedDisjoint(obs) ==
    \A i \in 1..(Len(obs) - 1) : obs[i].x + obs[i].width < obs[i + 1].x

C29_OrderedDisjoint == OrderedDisjoint(levelObstacles)

\* After a collision frame: the obstacles up to the k-th were scrolled, the
\* rest were not, so the k-th gap is wider than generation made it while
\* the obstacles after it still stand where generation put them.
C29_Witness ==
    /\ gameState = "GAME_OVER"
    /\ \E rs \in RandomStreams, k \in 1..(Len(levelObstacles) - 1) :
          LET fresh == FreshSequence([Cur EXCEPT !.gameState = previousGameState,
                                                 !.score = 0], rs)
          IN  /\ Len(fresh) = Len(levelObstacles)
              /\ levelObstacles[k].x < fresh[k].x
              /\ \A i \in (k + 1)..Len(fresh) : levelObstacles[i] = fresh[i]

(***************************************************************************)
(* C30.  While the mode is LEVEL or INFINITE, the grounded flag implies    *)
(* that the player rests on the ground line: in every reachable play       *)
(* state, isGrounded implies y + height = canvas.height - groundHeight     *)
(* and velocityY = 0, also after resizes of the viewport during the run.   *)
(***************************************************************************)
C30_GroundedOnGroundLine ==
    (gameState \in PlayModes /\ player.isGrounded) =>
        /\ player.y + player.height = GroundLine(Cur)
        /\ player.velocityY = 0

(***************************************************************************)
(* C31.  Generation terminates: for every level 1..50, every viewport and  *)
(* every sequence of random draws, the loop of generateObstacles ends      *)
(* after at most ceil((800 + 100 * currentLevel) / 40) iterations, because *)
(* each iteration advances the cursor by at least 40 px even when the      *)
(* player size is 0; on exit only the last obstacle's right edge reaches   *)
(* the target length.                                                      *)
(*                                                                         *)
(* Every iteration pushes one obstacle, so the number of iterations is the *)
(* length of the generated sequence.  Checked on every step that starts a  *)
(* level run, and by direct evaluation for a player of size 0 (a canvas    *)
(* without height) at every level under every stream.                      *)
(***************************************************************************)
\* ceil((800 + 100 * level) / 40)
IterationBound(level) == ((800 + 100 * level) + 39) \div 40

\* obs is what a generation for the given level leaves: within the bound,
\* each obstacle at least 40 px further than the one before, and only the
\* last right edge at or past the target length.
EndsWithin(obs, level) ==
    /\ Len(obs) >= 1
    /\ Len(obs) <= IterationBound(level)
    /\ \A i \in 1..Len(obs) :
          /\ i < Len(obs) => obs[i].x + obs[i].width < MaxDist(FALSE, level)
          /\ i < Len(obs) => (obs[i + 1].x + obs[i + 1].width) - (obs[i].x + obs[i].width) >= 400
          /\ i = Len(obs) => obs[i].x + obs[i].width >= MaxDist(FALSE, level)

\* The loop of generateObstacles run in four legs: each leg resumes the
\* loop where the one before stopped (cursor and loop variable at the right
\* edge of the last obstacle, three draws made per obstacle) and runs it to
\* the next quarter of the target length.  The body of the loop does not
\* read the target, so the legs make the iterations of the whole loop.
ResumeLoop(G, level, rs, obs, target) ==
    LET last == obs[Len(obs)]
    IN  IF last.x + last.width < target
        THEN GenLoop(G, Difficulty(FALSE, G.score, level), target, rs,
                     last.x + last.width, last.x + last.width, obs, 3 * Len(obs))
        ELSE obs
GenerateInLegs(G, level, rs) ==
    LET maxDist == MaxDist(FALSE, level)
    IN  CHOOSE leg4 \in
            { ResumeLoop(G, level, rs, leg3, maxDist) :
                leg3 \in { ResumeLoop(G, level, rs, leg2, (maxDist * 3) \div 4) :
                    leg2 \in { ResumeLoop(G, level, rs, leg1, maxDist \div 2) :
                        leg1 \in { GenLoop(G, Difficulty(FALSE, G.score, level),
                                           maxDist \div 4, rs,
                                           G.canvas.width * 6, 0, <<>>, 0) } } } } : TRUE

\* Canvas widths, in pixels, of the canvases without height that generation
\* is tried on at the start of a session: the player has size 0 there.
ZeroSizeWidths == {0, 800, 10000}

ZeroSizeGenerationEnds ==
    (gameState = "MENU" /\ lastTime = 0 /\ score = 0) =>
        \A w \in ZeroSizeWidths :
            \E G \in {resizeCanvas(Cur, [width |-> w, height |-> 0])} :
                \A n \in 1..LevelCount, rs \in GenRandomStreams :
                    \E obs \in {GenerateInLegs(G, n, rs)} : EndsWithin(obs, n)

C31_GenerationTerminates ==
    /\ []ZeroSizeGenerationEnds
    /\ [][(gameState # "LEVEL" /\ gameState' = "LEVEL") =>
             /\ EndsWithin(levelObstacles', currentLevel')
             /\ \E rs \in GenRandomStreams :
                   levelObstacles' = GenerateInLegs(Cur', currentLevel', rs)]_vars

\* A run of level 50 as generation left it: several obstacles, the last one
\* alone reaching the target length of 5800 px.
C31_Witness ==
    /\ gameState = "LEVEL" /\ currentLevel = LevelCount
    /\ Len(levelObstacles) >= 10
    /\ EndsWithin(levelObstacles, currentLevel)

(***************************************************************************)
(* C32.  Every obstacle stands on the ground line throughout its run: in   *)
(* every reachable state with mode LEVEL, INFINITE or GAME_OVER each       *)
(* obstacle has y + height = canvas.height - groundHeight for the current  *)
(* viewport, also after a resize of the viewport during the run.           *)
(***************************************************************************)
C32_ObstaclesOnGroundLine ==
    gameState \in {"LEVEL", "INFINITE", "GAME_OVER"} =>
        \A i \in 1..Len(levelObstacles) :
            levelObstacles[i].y + levelObstacles[i].height = GroundLine(Cur)

====
